---- MODULE Spec2Model ----
(***************************************************************************)
(* Kipper, the Kopi language installer (src/src/main.rs).                  *)
(*                                                                         *)
(* The model is one host: a filesystem holding the install root, the bin   *)
(* directory and one scratch directory per process id, and installer       *)
(* processes that run main() one method at a time.  Every fallible         *)
(* filesystem or subprocess call of the source takes its outcome from an   *)
(* input of the action that models the method calling it.                  *)
(***************************************************************************)
EXTENDS Integers, Sequences, FiniteSets, TLC

\* ------------------------------------------------------------------ bounds
MaxPid == 1
MaxVersion == 2
MaxConcurrent == 2

\* process ids: SeqPids of the processes that run one after another,
\* ConcPids of the processes that run at the same time
SeqPids == 1..MaxPid
ConcPids == 1..MaxConcurrent
Pids == SeqPids \cup ConcPids
\* content of a built binary: the upstream revision the clone fetched
Versions == 1..MaxVersion

\* ------------------------------------------------------- host environment
\* A path is the sequence of its components.
HomePath == <<"home", "u">>
Unset == <<>>

\* The home-directory variables a process may be started with.
Envs ==
    { [HOME |-> HomePath, USERPROFILE |-> Unset],
      [HOME |-> Unset,    USERPROFILE |-> HomePath],
      [HOME |-> Unset,    USERPROFILE |-> Unset] }

\* First arguments a process may be started with ("" is no argument).
Args == {"", "-h", "--help", "-u", "--uninstall", "-v", "--version", "--bogus"}

Platforms == {"unix", "windows"}

\* Lines the user may type at the reinstall prompt, as read_line returns them
\* (<<>> is end of input).
InputLines ==
    { <<>>,
      <<"\n">>,
      <<"y", "\n">>,
      <<" ", "Y", "E", "S", " ", "\n">>,
      <<"n", "\n">>,
      <<"m", "a", "y", "b", "e", "\n">>,
      <<"y", "n", "\n">> }

\* ------------------------------------------------------ string operations
Whitespace == {" ", "\n", "\t", "\r"}

RECURSIVE trim_start(_)
trim_start(s) ==
    IF s = <<>> THEN <<>>
    ELSE IF Head(s) \in Whitespace THEN trim_start(Tail(s))
    ELSE s

RECURSIVE trim_end(_)
trim_end(s) ==
    IF s = <<>> THEN <<>>
    ELSE IF s[Len(s)] \in Whitespace THEN trim_end(SubSeq(s, 1, Len(s) - 1))
    ELSE s

\* str::trim
trim(s) == trim_end(trim_start(s))

lower_char(c) ==
    CASE c = "Y" -> "y"
      [] c = "E" -> "e"
      [] c = "S" -> "s"
      [] c = "N" -> "n"
      [] c = "O" -> "o"
      [] OTHER -> c

\* str::to_lowercase
to_lowercase(s) == [i \in 1..Len(s) |-> lower_char(s[i])]

\* str::starts_with(char)
starts_with(s, c) == s # <<>> /\ Head(s) = c

\* answers_yes with the test of the answer lost: every answer reinstalls.
answers_yes_always(input) == TRUE

\* The test of the reinstall prompt: TRUE when the run goes on to reinstall.
answers_yes(input) == starts_with(to_lowercase(trim(input)), "y")

\* ------------------------------------------------------------- filesystem
\* binary: 0 when installRoot/kopi is absent, -1 a file left by a copy that
\* failed midway, v in Versions the copied build.
\* link (binDir/kopi): "absent", "to_binary" (symlink to installRoot/kopi),
\* "to_other" (symlink to some other existing file), "dangling" (symlink
\* to a missing file that is not installRoot/kopi).
LinkStates == {"absent", "to_binary", "to_other", "dangling"}

NoFile == [exists |-> FALSE, script |-> <<>>, exec |-> FALSE]
NoScratch == [exists |-> FALSE, built |-> 0]

FreshFS ==
    [ installDir  |-> FALSE,
      binary      |-> 0,
      uninstaller |-> NoFile,
      other       |-> FALSE,
      binDir      |-> FALSE,
      link        |-> "absent",
      scratch     |-> [d \in Pids |-> NoScratch] ]

\* Path::exists on installRoot/kopi
binary_exists(f) == f.binary # 0

\* Path::exists on binDir/kopi: follows the symlink
bin_path_exists(f) ==
    CASE f.link = "absent"    -> FALSE
      [] f.link = "to_binary" -> binary_exists(f)
      [] f.link = "to_other"  -> TRUE
      [] f.link = "dangling"  -> FALSE

Ok(f) == [ok |-> TRUE, fs |-> f]
Err(f) == [ok |-> FALSE, fs |-> f]

\* ------------------------------------------------------ Installer methods
\* Installer::new: the paths of one run, or an error when no home variable
\* is set.  temp_dir is named by the process id.
\* temp_dir without the process id in its name: one directory for all
temp_dir_shared(pid) == 1

temp_dir(pid) == pid

new(env, plat, pid) ==
    LET home == IF env.HOME # Unset THEN env.HOME ELSE env.USERPROFILE
        install_dir == home \o <<".kopi">>
    IN  [ ok          |-> home # Unset,
          install_dir |-> install_dir,
          bin_dir     |-> IF plat = "windows" THEN install_dir
                          ELSE home \o <<".local", "bin">>,
          temp_dir    |-> temp_dir(pid) ]

\* check_dependencies: git and cargo are whether `git --version` and
\* `cargo --version` run and succeed.
check_dependencies(git, cargo) == git /\ cargo

CreateDirFails == {"none", "install_dir", "bin_dir", "temp_dir"}

\* create_directories that starts from an empty installRoot: what is in
\* it is removed first.
create_directories_clean(f, plat, d, fail) ==
    IF fail = "install_dir" THEN Err(f)
    ELSE LET f1 == [f EXCEPT !.installDir = TRUE, !.binary = 0,
                             !.uninstaller = NoFile, !.other = FALSE] IN
         IF fail = "bin_dir" THEN Err(f1)
         ELSE LET f2 == IF plat = "unix" THEN [f1 EXCEPT !.binDir = TRUE] ELSE f1 IN
              IF fail = "temp_dir" THEN Err(f2)
              ELSE Ok([f2 EXCEPT !.scratch[d].exists = TRUE])

\* create_directories: three create_dir_all calls, `fail` naming the one
\* that returns an error.
create_directories(f, plat, d, fail) ==
    IF fail = "install_dir" THEN Err(f)
    ELSE LET f1 == [f EXCEPT !.installDir = TRUE] IN
         IF fail = "bin_dir" THEN Err(f1)
         ELSE LET f2 == IF plat = "unix" THEN [f1 EXCEPT !.binDir = TRUE] ELSE f1 IN
              IF fail = "temp_dir" THEN Err(f2)
              ELSE Ok([f2 EXCEPT !.scratch[d].exists = TRUE])

CommandOutcomes == {"spawn_err", "fail", "ok"}

\* download_and_build with the build output taken straight into
\* installRoot: cargo build leaves its binary as installRoot/kopi.
download_and_build_in_place(f, d, git, cargo, produced) ==
    IF git # "ok" THEN Err(f)
    ELSE LET f1 == [f EXCEPT !.scratch[d] =
                        [exists |-> TRUE, built |-> 0]] IN
         IF cargo # "ok" THEN Err(f1)
         ELSE LET f2 == [f1 EXCEPT !.scratch[d].built = produced,
                                   !.binary = produced] IN
              IF f2.scratch[d].built = 0 THEN Err(f2) ELSE Ok(f2)

\* download_and_build: git clone into temp_dir/kopi-lang, cargo build
\* there, then the check that target/release/kopi exists.  `produced` is
\* the binary the build leaves (0 for none).
download_and_build(f, d, git, cargo, produced) ==
    IF git # "ok" THEN Err(f)
    ELSE LET f1 == [f EXCEPT !.scratch[d] =
                        [exists |-> TRUE, built |-> 0]] IN
         IF cargo # "ok" THEN Err(f1)
         ELSE LET f2 == [f1 EXCEPT !.scratch[d].built = produced] IN
              IF f2.scratch[d].built = 0 THEN Err(f2) ELSE Ok(f2)

InstallBinaryFails == {"none", "copy", "copy_partial", "remove_file", "symlink"}

\* install_binary with the symlink step's errors ignored instead of returned.
install_binary_lenient(f, plat, d, fail) ==
    LET src == f.scratch[d].built IN
    IF fail = "copy" \/ src = 0 \/ ~f.installDir THEN Err(f)
    ELSE IF fail = "copy_partial" THEN Err([f EXCEPT !.binary = -1])
    ELSE LET f1 == [f EXCEPT !.binary = src] IN
         IF plat = "windows" THEN Ok(f1)
         ELSE IF bin_path_exists(f1) /\ fail = "remove_file" THEN Ok(f1)
         ELSE LET f2 == IF bin_path_exists(f1)
                          THEN [f1 EXCEPT !.link = "absent"] ELSE f1 IN
              IF fail = "symlink" \/ f2.link # "absent" \/ ~f2.binDir
                THEN Ok(f2)
                ELSE Ok([f2 EXCEPT !.link = "to_binary"])

\* install_binary: fs::copy of the built binary to installRoot/kopi, then
\* on unix the replacement of binDir/kopi by a symlink to it.
install_binary(f, plat, d, fail) ==
    LET src == f.scratch[d].built IN
    IF fail = "copy" \/ src = 0 \/ ~f.installDir THEN Err(f)
    ELSE IF fail = "copy_partial" THEN Err([f EXCEPT !.binary = -1])
    ELSE LET f1 == [f EXCEPT !.binary = src] IN
         IF plat = "windows" THEN Ok(f1)
         ELSE IF bin_path_exists(f1) /\ fail = "remove_file" THEN Err(f1)
         ELSE LET f2 == IF bin_path_exists(f1)
                          THEN [f1 EXCEPT !.link = "absent"] ELSE f1 IN
              IF fail = "symlink" \/ f2.link # "absent" \/ ~f2.binDir
                THEN Err(f2)
                ELSE Ok([f2 EXCEPT !.link = "to_binary"])

\* The text of the uninstall script: the paths it removes, in order.
uninstall_script(env, plat, install_dir) ==
    LET home_dir == IF env.HOME # Unset THEN env.HOME ELSE <<".">> IN
    IF plat = "windows"
      THEN << install_dir \o <<"kopi.exe">>, install_dir >>
      ELSE << install_dir \o <<"kopi">>,
              home_dir \o <<".local", "bin", "kopi">>,
              install_dir >>

CreateUninstallerFails == {"none", "write", "metadata", "set_permissions"}

\* create_uninstaller: fs::write of the script into installRoot, then on
\* unix chmod 755.
create_uninstaller(f, plat, env, install_dir, fail) ==
    IF fail = "write" \/ ~f.installDir THEN Err(f)
    ELSE LET f1 == [f EXCEPT !.uninstaller =
                        [ exists |-> TRUE,
                          script |-> uninstall_script(env, plat, install_dir),
                          exec   |-> f.uninstaller.exec ]] IN
         IF plat = "windows" THEN Ok(f1)
         ELSE IF fail \in {"metadata", "set_permissions"} THEN Err(f1)
         ELSE Ok([f1 EXCEPT !.uninstaller.exec = TRUE])

\* verify_installation: the binary is re-checked; on_path (whether `kopi
\* --version` runs) only selects the message printed.
verify_installation(f, on_path) ==
    IF binary_exists(f) THEN Ok(f) ELSE Err(f)

CleanupFails == {"none", "remove_dir_all"}

\* cleanup: remove temp_dir when it exists.
cleanup(f, d, fail) ==
    IF f.scratch[d].exists
      THEN IF fail = "remove_dir_all" THEN Err(f)
           ELSE Ok([f EXCEPT !.scratch[d] = NoScratch])
      ELSE Ok(f)

UninstallFails ==
    {"none", "remove_binary", "remove_link", "remove_dir_all", "remove_dir_all_partial"}

\* uninstall without the exists() test before remove_file: removing the
\* absent binary is an error.
uninstall_unguarded(f, plat, fail) ==
    IF ~binary_exists(f) \/ fail = "remove_binary" THEN Err(f)
    ELSE LET f1 == [f EXCEPT !.binary = 0] IN
         IF plat = "unix" /\ bin_path_exists(f1) /\ fail = "remove_link" THEN Err(f1)
         ELSE LET f2 == IF plat = "unix" /\ bin_path_exists(f1)
                          THEN [f1 EXCEPT !.link = "absent"] ELSE f1 IN
              IF ~f2.installDir THEN Ok(f2)
              ELSE IF fail \in {"remove_dir_all", "remove_dir_all_partial"}
                THEN Err(f2)
                ELSE Ok([f2 EXCEPT !.installDir = FALSE,
                                   !.uninstaller = NoFile,
                                   !.other = FALSE])

\* uninstall: remove installRoot/kopi, then on unix binDir/kopi, then
\* installRoot recursively; each only if Path::exists says it is there.
\* A remove_dir_all that fails has removed nothing, or some entries.
uninstall(f, plat, fail) ==
    IF binary_exists(f) /\ fail = "remove_binary" THEN Err(f)
    ELSE LET f1 == [f EXCEPT !.binary = 0] IN
         IF plat = "unix" /\ bin_path_exists(f1) /\ fail = "remove_link" THEN Err(f1)
         ELSE LET f2 == IF plat = "unix" /\ bin_path_exists(f1)
                          THEN [f1 EXCEPT !.link = "absent"] ELSE f1 IN
              IF ~f2.installDir THEN Ok(f2)
              ELSE IF fail = "remove_dir_all" THEN Err(f2)
              ELSE IF fail = "remove_dir_all_partial"
                THEN Err([f2 EXCEPT !.uninstaller = NoFile])
                ELSE Ok([f2 EXCEPT !.installDir = FALSE,
                                   !.uninstaller = NoFile,
                                   !.other = FALSE])

\* exit_code with the error of the run dropped, as cleanup's is.
exit_code_dropped(result) == 0

\* main, lines 377-380: the process exit code for the result of the run.
exit_code(result) == IF result = "err" THEN 1 ELSE 0

\* What a run is given from outside: the prompt's answer and the outcome of
\* every call that can fail.
RunInputs ==
    [ read_ok     : BOOLEAN,
      input       : InputLines,
      git_found   : BOOLEAN,
      cargo_found : BOOLEAN,
      mkdir       : CreateDirFails,
      git         : CommandOutcomes,
      cargo       : CommandOutcomes,
      produced    : {0} \cup Versions,
      place       : InstallBinaryFails,
      script      : CreateUninstallerFails,
      on_path     : BOOLEAN,
      cleanup     : CleanupFails ]

Stopped(ok, f, steps) == [ok |-> ok, fs |-> f, steps |-> steps]

\* Installer::install as a function of the filesystem it starts from and
\* its inputs: each `?` returns the first error.
install(f, plat, env, pid, in) ==
    LET d  == temp_dir(pid)
        s0 == IF binary_exists(f) THEN <<"confirm">> ELSE <<>>
        s1 == Append(s0, "check_dependencies")
        s2 == Append(s1, "create_directories")
        s3 == Append(s2, "download_and_build")
        s4 == Append(s3, "install_binary")
        s5 == Append(s4, "create_uninstaller")
        s6 == Append(s5, "verify_installation")
        r2 == create_directories(f, plat, d, in.mkdir)
        r3 == download_and_build(r2.fs, d, in.git, in.cargo, in.produced)
        r4 == install_binary(r3.fs, plat, d, in.place)
        r5 == create_uninstaller(r4.fs, plat, env,
                                 new(env, plat, pid).install_dir, in.script)
        r6 == verify_installation(r5.fs, in.on_path)
    IN  IF binary_exists(f) /\ ~in.read_ok THEN Stopped(FALSE, f, s0)
        ELSE IF binary_exists(f) /\ ~answers_yes(in.input) THEN Stopped(TRUE, f, s0)
        ELSE IF ~check_dependencies(in.git_found, in.cargo_found)
          THEN Stopped(FALSE, f, s1)
        ELSE IF ~r2.ok THEN Stopped(FALSE, r2.fs, s2)
        ELSE IF ~r3.ok THEN Stopped(FALSE, r3.fs, s3)
        ELSE IF ~r4.ok THEN Stopped(FALSE, r4.fs, s4)
        ELSE IF ~r5.ok THEN Stopped(FALSE, r5.fs, s5)
        ELSE Stopped(r6.ok, r6.fs, s6)

\* main with no argument, as a function: Installer::new, install, cleanup
\* with its result dropped, and the exit code.
run_install(f, plat, env, pid, in) ==
    IF ~new(env, plat, pid).ok
      THEN [code |-> 1, fs |-> f, steps |-> <<>>]
      ELSE LET r == install(f, plat, env, pid, in) IN
           [ code  |-> exit_code(IF r.ok THEN "ok" ELSE "err"),
             fs    |-> cleanup(r.fs, temp_dir(pid), in.cleanup).fs,
             steps |-> Append(r.steps, "cleanup") ]

\* ---------------------------------------------------------------- state
VARIABLES
    fs,         \* the host's filesystem
    proc,       \* proc[p]: the installer process with process id p
    platform,   \* what the binary was compiled for (cfg!(windows) / cfg(unix))
    history     \* what the runs that exited last were

vars == <<fs, proc, platform, history>>

NoEnv == [HOME |-> Unset, USERPROFILE |-> Unset]

\* The answer of a run that has read no line at the prompt.
NoAnswer == <<"(none)">>

\* A process that is not running.  code is -1 until a run has exited;
\* steps are the methods the run has entered, result what main holds in
\* `result`, answer the line read at the reinstall prompt.
IdleProc ==
    [ pc     |-> "idle",
      args   |-> "",
      env    |-> NoEnv,
      result |-> "none",
      code   |-> -1,
      steps  |-> <<>>,
      answer |-> NoAnswer ]

\* Hosts before any run: nothing of Kopi is installed; installRoot may hold
\* a file of the user's, and binDir/kopi may be a symlink someone else made.
InitFS ==
    { f \in [ installDir  : BOOLEAN,
              binary      : {0},
              uninstaller : {NoFile},
              other       : BOOLEAN,
              binDir      : BOOLEAN,
              link        : {"absent", "to_other", "dangling"},
              scratch     : {[d \in Pids |-> NoScratch]} ] :
        /\ f.other => f.installDir
        /\ f.link # "absent" => f.binDir }

Init ==
    /\ platform \in Platforms
    /\ fs \in InitFS
    /\ platform = "windows" => (~fs.binDir /\ fs.link = "absent")
    /\ proc = [p \in Pids |-> IdleProc]
    /\ history = "none"

Running(p) == proc[p].pc # "idle"
Exited(p) == proc[p].pc = "idle" /\ proc[p].code >= 0
Entered(r, step) == \E i \in 1..Len(r.steps) : r.steps[i] = step

\* The kind of a run, known when it exits.
run_kind(r) ==
    CASE r.result \notin {"ok", "err"} -> "usage"
      [] r.args \in {"-h", "--help", "-v", "--version"} -> "info"
      [] r.args \in {"-u", "--uninstall"} ->
            IF r.result = "ok" THEN "uninstall_ok" ELSE "uninstall_err"
      [] OTHER ->
            IF r.result = "err" THEN "install_err"
            ELSE IF Entered(r, "verify_installation")
              THEN "install_ok" ELSE "install_declined"

\* history after a run of kind k exits: "installed" right after an install
\* that succeeded, "roundtrip" right after an uninstall that succeeded and
\* followed such an install.
next_history(h, k) ==
    IF k = "install_ok" THEN "installed"
    ELSE IF k = "uninstall_ok" /\ h = "installed" THEN "roundtrip"
    ELSE "none"

\* The process ends with exit code c.
Terminate(p, r, c) ==
    /\ proc' = [proc EXCEPT ![p] = [r EXCEPT !.pc = "idle", !.code = c]]
    /\ history' = next_history(history, run_kind(r))

\* Advance without the `?`: the run goes on to `next` whatever the outcome.
Advance_unchecked(p, step, r, next) ==
    /\ fs' = r.fs
    /\ proc' = [proc EXCEPT ![p] =
                  [@ EXCEPT !.pc = next, !.steps = Append(@, step)]]
    /\ UNCHANGED <<platform, history>>

\* The process has run method `step` with outcome r (r.ok: it returned Ok)
\* and goes on to `next`, or to main's cleanup with the error.
Advance(p, step, r, next) ==
    /\ fs' = r.fs
    /\ proc' = [proc EXCEPT ![p] =
                  IF r.ok
                    THEN [@ EXCEPT !.pc = next, !.steps = Append(@, step)]
                    ELSE [@ EXCEPT !.pc = "cleanup", !.steps = Append(@, step),
                                   !.result = "err"]]
    /\ UNCHANGED <<platform, history>>

\* ---------------------------------------------------------------- main
\* A process is launched.  The records of the runs that have exited are
\* dropped: they are history, no code reads them.
Launch(p) ==
    /\ ~Running(p)
    /\ \E a \in Args, e \in Envs :
         proc' = [q \in Pids |->
                    IF q = p
                      THEN [IdleProc EXCEPT !.pc = "new", !.args = a, !.env = e]
                      ELSE IF Running(q) THEN proc[q] ELSE IdleProc]
    /\ UNCHANGED <<fs, platform, history>>

\* Runs of the installer one after another: no process is running.
Start(p) ==
    /\ \A q \in Pids : ~Running(q)
    /\ Launch(p)

\* main, lines 345-351: Installer::new, exit(1) when it fails.
New(p) ==
    /\ proc[p].pc = "new"
    /\ IF new(proc[p].env, platform, p).ok
         THEN /\ proc' = [proc EXCEPT ![p].pc = "dispatch"]
              /\ UNCHANGED history
         ELSE Terminate(p, [proc[p] EXCEPT !.result = "init_err"], 1)
    /\ UNCHANGED <<fs, platform>>

\* main, lines 354-357
ShowHelp(p) ==
    /\ proc[p].pc = "dispatch"
    /\ proc[p].args \in {"-h", "--help"}
    /\ proc' = [proc EXCEPT ![p].pc = "cleanup", ![p].result = "ok"]
    /\ UNCHANGED <<fs, platform, history>>

\* main, lines 361-364
ShowVersion(p) ==
    /\ proc[p].pc = "dispatch"
    /\ proc[p].args \in {"-v", "--version"}
    /\ proc' = [proc EXCEPT ![p].pc = "cleanup", ![p].result = "ok"]
    /\ UNCHANGED <<fs, platform, history>>

\* main, lines 368-372: an unknown option exits at once
UnknownOption(p) ==
    /\ proc[p].pc = "dispatch"
    /\ proc[p].args \notin {"", "-h", "--help", "-u", "--uninstall", "-v", "--version"}
    /\ Terminate(p, [proc[p] EXCEPT !.result = "usage_err"], 1)
    /\ UNCHANGED <<fs, platform>>

\* main, lines 358-360: Installer::uninstall
Uninstall(p) ==
    /\ proc[p].pc = "dispatch"
    /\ proc[p].args \in {"-u", "--uninstall"}
    /\ \E fail \in UninstallFails :
         LET r == uninstall(fs, platform, fail) IN
         /\ fs' = r.fs
         /\ proc' = [proc EXCEPT ![p] =
                       [@ EXCEPT !.pc = "cleanup", !.steps = Append(@, "uninstall"),
                                 !.result = IF r.ok THEN "ok" ELSE "err"]]
    /\ UNCHANGED <<platform, history>>

\* Installer::install, lines 287-297: the check for an installed binary
Install(p) ==
    /\ proc[p].pc = "dispatch"
    /\ proc[p].args = ""
    /\ proc' = [proc EXCEPT ![p].pc =
                  IF binary_exists(fs) THEN "confirm" ELSE "check_dependencies"]
    /\ UNCHANGED <<fs, platform, history>>

\* Installer::install, lines 297-306: the reinstall prompt.  read_ok is
\* whether flush and read_line returned Ok, input the line read.
Confirm(p) ==
    /\ proc[p].pc = "confirm"
    /\ \E read_ok \in BOOLEAN, input \in InputLines :
         proc' = [proc EXCEPT ![p] =
                    IF ~read_ok
                      THEN [@ EXCEPT !.pc = "cleanup", !.result = "err",
                                     !.steps = Append(@, "confirm")]
                    ELSE IF ~answers_yes(input)
                      THEN [@ EXCEPT !.pc = "cleanup", !.result = "ok",
                                     !.steps = Append(@, "confirm"),
                                     !.answer = input]
                      ELSE [@ EXCEPT !.pc = "check_dependencies",
                                     !.steps = Append(@, "confirm"),
                                     !.answer = input]]
    /\ UNCHANGED <<fs, platform, history>>

CheckDependencies(p) ==
    /\ proc[p].pc = "check_dependencies"
    /\ \E git \in BOOLEAN, cargo \in BOOLEAN :
         Advance(p, "check_dependencies",
                 [ok |-> check_dependencies(git, cargo), fs |-> fs],
                 "create_directories")

CreateDirectories(p) ==
    /\ proc[p].pc = "create_directories"
    /\ \E fail \in CreateDirFails :
         Advance(p, "create_directories",
                 create_directories(fs, platform, temp_dir(p), fail),
                 "download_and_build")

DownloadAndBuild(p) ==
    /\ proc[p].pc = "download_and_build"
    /\ \E git \in CommandOutcomes, cargo \in CommandOutcomes,
          produced \in {0} \cup Versions :
         Advance(p, "download_and_build",
                 download_and_build(fs, temp_dir(p), git, cargo, produced),
                 "install_binary")

InstallBinary(p) ==
    /\ proc[p].pc = "install_binary"
    /\ \E fail \in InstallBinaryFails :
         Advance(p, "install_binary",
                 install_binary(fs, platform, temp_dir(p), fail),
                 "create_uninstaller")

CreateUninstaller(p) ==
    /\ proc[p].pc = "create_uninstaller"
    /\ \E fail \in CreateUninstallerFails :
         Advance(p, "create_uninstaller",
                 create_uninstaller(fs, platform, proc[p].env,
                                    new(proc[p].env, platform, p).install_dir, fail),
                 "verify_installation")

\* verify_installation, then lines 317-322: install returns Ok
VerifyInstallation(p) ==
    /\ proc[p].pc = "verify_installation"
    /\ \E on_path \in BOOLEAN :
         LET r == verify_installation(fs, on_path) IN
         /\ fs' = r.fs
         /\ proc' = [proc EXCEPT ![p] =
                       [@ EXCEPT !.pc = "cleanup",
                                 !.steps = Append(@, "verify_installation"),
                                 !.result = IF r.ok THEN "ok" ELSE "err"]]
    /\ UNCHANGED <<platform, history>>

\* main, line 375: `let _ = installer.cleanup()`, the result is dropped
Cleanup(p) ==
    /\ proc[p].pc = "cleanup"
    /\ \E fail \in CleanupFails :
         /\ fs' = cleanup(fs, temp_dir(p), fail).fs
         /\ proc' = [proc EXCEPT ![p].pc = "exit",
                                 ![p].steps = Append(@, "cleanup")]
    /\ UNCHANGED <<platform, history>>

\* main, lines 377-381
Exit(p) ==
    /\ proc[p].pc = "exit"
    /\ Terminate(p, proc[p], exit_code(proc[p].result))
    /\ UNCHANGED <<fs, platform>>

Step(p) ==
    \/ New(p)
    \/ ShowHelp(p)
    \/ ShowVersion(p)
    \/ UnknownOption(p)
    \/ Uninstall(p)
    \/ Install(p)
    \/ Confirm(p)
    \/ CheckDependencies(p)
    \/ CreateDirectories(p)
    \/ DownloadAndBuild(p)
    \/ InstallBinary(p)
    \/ CreateUninstaller(p)
    \/ VerifyInstallation(p)
    \/ Cleanup(p)
    \/ Exit(p)

Next == \E p \in SeqPids : Start(p) \/ Step(p)

Spec == Init /\ [][Next]_vars

\* Installer processes running at the same time: the processes of
\* ConcPids have all been launched, each with its own argument and
\* environment, and their steps interleave in every order.
InitConc ==
    /\ platform \in Platforms
    /\ fs \in InitFS
    /\ platform = "windows" => (~fs.binDir /\ fs.link = "absent")
    /\ proc \in [Pids -> {IdleProc} \cup
                   {[IdleProc EXCEPT !.pc = "new", !.args = a, !.env = e] :
                        a \in Args, e \in Envs}]
    /\ \A p \in Pids : Running(p) <=> p \in ConcPids
    /\ history = "none"

NextConc == \E p \in ConcPids : Step(p)

SpecConc == InitConc /\ [][NextConc]_vars

TypeOK ==
    /\ platform \in Platforms
    /\ fs.binary \in {-1, 0} \cup Versions
    /\ fs.link \in LinkStates
    /\ \A p \in Pids : proc[p].code \in {-1, 0, 1}

\* ============================================================== claims
Idle == \A p \in Pids : ~Running(p)

\* A run with no argument / with -u or --uninstall.
IsInstall(r) == r.args = "" /\ (r.pc # "idle" \/ r.code >= 0)
IsUninstall(r) == r.args \in {"-u", "--uninstall"}

\* ------------------------------------------------------------------- C1
\* C1: once a process has exited from an install or uninstall run, whatever
\* its outcome, its scratch directory does not exist.
C1_ScratchGoneAfterExit ==
    \A p \in Pids :
        (Exited(p) /\ proc[p].result \in {"ok", "err"}
                   /\ (IsInstall(proc[p]) \/ IsUninstall(proc[p])))
            => ~fs.scratch[temp_dir(p)].exists

\* ------------------------------------------------------------------- C2
\* C2: after any sequence of completed runs, if the uninstaller script
\* exists then the binary installRoot/kopi exists.
C2_UninstallerImpliesBinary ==
    Idle => (fs.uninstaller.exists => binary_exists(fs))

\* ------------------------------------------------------------------- C3
\* C3: at the end of every run, if the binary installRoot/kopi exists then
\* the uninstaller script exists.
C3_BinaryImpliesUninstaller ==
    Idle => (binary_exists(fs) => fs.uninstaller.exists)

\* ------------------------------------------------------------------- C4
\* The user's answer is a no: "n", "no", or nothing (an empty line or end
\* of input), in any letter case.
UserDeclines(r) ==
    /\ r.answer # NoAnswer
    /\ to_lowercase(trim(r.answer)) \in {<<>>, <<"n">>, <<"n", "o">>}

InstallRoot(f) ==
    [installDir |-> f.installDir, binary |-> f.binary,
     uninstaller |-> f.uninstaller, other |-> f.other]

\* C4: when the binary exists and the user declines the prompt, the run
\* enters no step from the dependency check to Verify, no step of the run
\* changes anything in installRoot, and the process exits with code 0.
C4_DeclinedReinstallChangesNothing ==
    /\ [](\A p \in Pids :
            UserDeclines(proc[p]) =>
                /\ proc[p].pc \in {"cleanup", "exit", "idle"}
                /\ proc[p].result = "ok"
                /\ \A i \in 1..Len(proc[p].steps) :
                       proc[p].steps[i] \in {"confirm", "cleanup"}
                /\ Exited(p) => proc[p].code = 0)
    /\ [][\A p \in Pids :
            (Running(p) /\ proc[p].args = ""
                        /\ ~Entered(proc'[p], "check_dependencies"))
                => InstallRoot(fs') = InstallRoot(fs)]_vars

\* A declined reinstall has exited, the installation still in place.
C4_Witness ==
    \E p \in Pids :
        /\ Exited(p)
        /\ UserDeclines(proc[p])
        /\ proc[p].steps = <<"confirm", "cleanup">>
        /\ proc[p].code = 0
        /\ fs.binary \in Versions
        /\ fs.uninstaller.exists

\* ------------------------------------------------------------------- C5
\* C5: on a unix host, right after a successful install followed by a
\* successful uninstall, installRoot and the binDir/kopi symlink are absent.
C5_RoundTripRemovesAll ==
    (platform = "unix" /\ history = "roundtrip" /\ Idle)
        => (~fs.installDir /\ fs.link = "absent")

\* ------------------------------------------------------------------- C6
\* What C6 compares of a run: whether it prompted and the steps it entered
\* (steps), its exit code, and the binary, uninstaller and symlink it leaves.
Observed(r) ==
    [ steps |-> r.steps, code |-> r.code, binary |-> r.fs.binary,
      uninstaller |-> r.fs.uninstaller, link |-> r.fs.link ]

\* C6: from the state a successful install followed by a successful
\* uninstall leaves, an install run given the same inputs does what it does
\* on a fresh host: same steps, same exit code, same final files.
C6_ReinstallLikeFirstInstall ==
    (history = "roundtrip" /\ Idle) =>
        \A p \in Pids, env \in Envs, in \in RunInputs :
            Observed(run_install(fs, platform, env, p, in))
                = Observed(run_install(FreshFS, platform, env, p, in))

\* ------------------------------------------------------------------- C7
LifecycleSteps ==
    <<"check_dependencies", "create_directories", "download_and_build",
      "install_binary", "create_uninstaller", "verify_installation">>

\* The steps of a run that entered every lifecycle step, in order.
RanAllSteps(r) ==
    \/ r.steps = LifecycleSteps \o <<"cleanup">>
    \/ r.steps = <<"confirm">> \o LifecycleSteps \o <<"cleanup">>

\* C7: once a step of an install run has failed no further lifecycle step
\* is pending or entered, the process runs cleanup and exits with code 1;
\* it exits with code 0 only when every step succeeded or the reinstall
\* was declined.
C7_ErrorAbortsCleansUpExitsOne ==
    \A p \in Pids :
        IsInstall(proc[p]) =>
            /\ proc[p].result = "err" =>
                   proc[p].pc \in {"cleanup", "exit", "idle"}
            /\ (Exited(p) /\ proc[p].result = "err") =>
                   /\ proc[p].code = 1
                   /\ proc[p].steps[Len(proc[p].steps)] = "cleanup"
            /\ (Exited(p) /\ proc[p].code = 0) =>
                   /\ proc[p].result = "ok"
                   /\ \/ RanAllSteps(proc[p])
                      \/ proc[p].steps = <<"confirm", "cleanup">>

\* An install run failed writing the uninstaller and has exited.
C7_Witness ==
    \E p \in Pids :
        /\ Exited(p)
        /\ proc[p].args = ""
        /\ proc[p].result = "err"
        /\ proc[p].steps = SubSeq(LifecycleSteps, 1, 5) \o <<"cleanup">>
        /\ proc[p].code = 1

\* ------------------------------------------------------------------- C8
\* C8: -h/--help and -v/--version exit with code 0 whatever home variables
\* are set, and an unrecognized argument exits with code 1.
C8_InfoFlagsExitZero ==
    \A p \in Pids :
        Exited(p) =>
            /\ proc[p].args \in {"-h", "--help", "-v", "--version"}
                   => proc[p].code = 0
            /\ proc[p].args = "--bogus" => proc[p].code = 1

\* The part of C8 that the code keeps: no step of a run with an info flag
\* or an unknown argument changes installRoot or the binDir symlink.
C8_InfoRunsTouchNothing ==
    [][\A p \in Pids :
         (Running(p) /\ proc[p].args \notin {"", "-u", "--uninstall"})
             => (InstallRoot(fs') = InstallRoot(fs) /\ fs'.link = fs.link)]_vars

\* ------------------------------------------------------------------- C9
\* C9: when an install run that was not declined has exited with code 0,
\* the binary and the uninstaller exist and on unix binDir/kopi is a
\* symlink to installRoot/kopi; and the outcome of Verify is the same
\* whether or not kopi resolves on PATH.
C9_SuccessMeansInstalled ==
    \A p \in Pids :
        /\ (Exited(p) /\ proc[p].args = "" /\ proc[p].code = 0
                      /\ Entered(proc[p], "check_dependencies")) =>
               /\ binary_exists(fs)
               /\ fs.uninstaller.exists
               /\ platform = "unix" => fs.link = "to_binary"
        /\ proc[p].pc = "verify_installation" =>
               verify_installation(fs, TRUE).ok = verify_installation(fs, FALSE).ok

\* A first install on unix has exited with code 0.
C9_Witness ==
    \E p \in Pids :
        /\ Exited(p)
        /\ proc[p].args = ""
        /\ proc[p].code = 0
        /\ RanAllSteps(proc[p])
        /\ platform = "unix"
        /\ fs.link = "to_binary"

\* ------------------------------------------------------------------ C10
\* A clear yes: "y" or "yes" in any letter case.
ClearYes(line) == to_lowercase(trim(line)) \in {<<"y">>, <<"y", "e", "s">>}

\* C10: every answer at the prompt that is not a clear yes cancels the
\* run: no lifecycle step is entered after it.
C10_OnlyClearYesReinstalls ==
    \A p \in Pids :
        (proc[p].answer # NoAnswer /\ ~ClearYes(proc[p].answer)) =>
            /\ proc[p].pc \in {"cleanup", "exit", "idle"}
            /\ ~Entered(proc[p], "check_dependencies")

\* ------------------------------------------------------------------ C11
\* Nothing uninstall looks for is there: no binary, nothing that exists()
\* sees at binDir/kopi, no installRoot.
NothingInstalled(f) ==
    ~binary_exists(f) /\ ~bin_path_exists(f) /\ ~f.installDir

\* C11: an uninstall run about to act returns Ok when every removal it
\* attempts succeeds, whatever is absent; from a state with nothing
\* installed it returns Ok and changes nothing whatever calls would fail;
\* a second uninstall after a successful one attempts nothing and leaves
\* the same filesystem; and an uninstall that returned Ok exits with code 0.
C11_UninstallIdempotent ==
    \A p \in Pids :
        /\ (proc[p].pc = "dispatch" /\ IsUninstall(proc[p])) =>
               LET once == uninstall(fs, platform, "none") IN
               /\ once.ok
               /\ NothingInstalled(fs) =>
                      \A fail \in UninstallFails :
                          uninstall(fs, platform, fail) = Ok(fs)
               /\ \A fail \in UninstallFails :
                      uninstall(once.fs, platform, fail) = Ok(once.fs)
        /\ (Exited(p) /\ IsUninstall(proc[p]) /\ proc[p].result = "ok") =>
               /\ proc[p].code = 0
               /\ NothingInstalled(fs)

\* An uninstall on a host where nothing was installed has exited with 0.
C11_Witness ==
    \E p \in Pids :
        /\ Exited(p)
        /\ IsUninstall(proc[p])
        /\ proc[p].code = 0
        /\ history = "none"
        /\ ~fs.binDir
        /\ NothingInstalled(fs)

\* ------------------------------------------------------------------ C12
\* C12: every install run that went through all its steps and exited with
\* code 0 entered a step update_path right after create_uninstaller and
\* right before verify_installation.
C12_UpdatePathStep ==
    \A p \in Pids :
        (Exited(p) /\ proc[p].args = "" /\ proc[p].code = 0
                   /\ Entered(proc[p], "verify_installation")) =>
            \E i \in 1..Len(proc[p].steps) - 2 :
                /\ proc[p].steps[i] = "create_uninstaller"
                /\ proc[p].steps[i + 1] = "update_path"
                /\ proc[p].steps[i + 2] = "verify_installation"

\* ------------------------------------------------------------------ C13
\* The lifecycle steps a run has entered: its steps without the prompt in
\* front and the cleanup at the end.
LifecyclePart(steps) ==
    LET a == IF steps # <<>> /\ Head(steps) = "confirm" THEN 2 ELSE 1
        b == IF steps # <<>> /\ steps[Len(steps)] = "cleanup"
               THEN Len(steps) - 1 ELSE Len(steps)
    IN  SubSeq(steps, a, b)

\* What the step the run is about to enter finds when its predecessor has
\* succeeded.
PredecessorDone(p) ==
    LET pc == proc[p].pc
        d  == fs.scratch[temp_dir(p)] IN
    /\ pc = "check_dependencies" =>
           proc[p].steps = IF binary_exists(fs) THEN <<"confirm">> ELSE <<>>
    /\ pc = "download_and_build" =>
           fs.installDir /\ d.exists /\ (platform = "unix" => fs.binDir)
    /\ pc = "install_binary" => d.built \in Versions
    /\ pc = "create_uninstaller" =>
           /\ fs.binary \in Versions
           /\ platform = "unix" => fs.link = "to_binary"
    /\ pc = "verify_installation" => fs.uninstaller.exists

\* C13: the lifecycle steps an install run has entered are an initial part
\* of the fixed order, the prompt only in front of them; a step is pending
\* only when all before it were entered, none failed, and the filesystem
\* shows what its predecessor produces; the uninstaller is written only by
\* a run that has placed the binary; and between cleanup and the end of
\* the process nothing in the filesystem changes.
C13_StepOrder ==
    /\ [](\A p \in Pids :
            proc[p].args = "" =>
                LET done == LifecyclePart(proc[p].steps) IN
                /\ Len(done) <= Len(LifecycleSteps)
                /\ done = SubSeq(LifecycleSteps, 1, Len(done))
                /\ \A i \in 1..Len(LifecycleSteps) :
                       proc[p].pc = LifecycleSteps[i] =>
                           /\ Len(done) = i - 1
                           /\ proc[p].result = "none"
                /\ PredecessorDone(p)
                /\ (Exited(p) /\ proc[p].result \in {"ok", "err"}) =>
                       proc[p].steps[Len(proc[p].steps)] = "cleanup")
    /\ [][\A p \in Pids :
            /\ (Running(p) /\ proc[p].args = ""
                           /\ fs'.uninstaller # fs.uninstaller) =>
                   /\ proc[p].pc = "create_uninstaller"
                   /\ Entered(proc[p], "install_binary")
                   /\ fs.binary \in Versions
            /\ proc[p].pc = "exit" => fs' = fs
            /\ (proc'[p].pc = "exit" /\ proc[p].pc # "exit") =>
                   proc'[p].steps[Len(proc'[p].steps)] = "cleanup"]_vars

\* A confirmed reinstall went through every step, in order, and exited.
C13_Witness ==
    \E p \in Pids :
        /\ Exited(p)
        /\ proc[p].steps = <<"confirm">> \o LifecycleSteps \o <<"cleanup">>
        /\ proc[p].code = 0
        /\ fs.uninstaller.exists

\* ------------------------------------------------------------------ C14
\* C14: on unix, when install_binary is about to run and binDir/kopi is a
\* symlink, whatever it points to, then with every system call succeeding
\* install_binary returns Ok and leaves binDir/kopi a symlink to
\* installRoot/kopi.
C14_PlaceBinaryReplacesAnySymlink ==
    \A p \in Pids :
        (platform = "unix" /\ proc[p].pc = "install_binary"
                           /\ fs.link # "absent") =>
            LET r == install_binary(fs, platform, temp_dir(p), "none") IN
            r.ok /\ r.fs.link = "to_binary"

\* ------------------------------------------------------------------ C15
\* Everything of the filesystem outside the scratch directories.
OutsideScratch(f) ==
    [installDir |-> f.installDir, binary |-> f.binary,
     uninstaller |-> f.uninstaller, other |-> f.other,
     binDir |-> f.binDir, link |-> f.link]

\* C15: download_and_build, whether it returns Ok or fails at the clone,
\* at the build or at the check for the built binary, changes nothing
\* outside the scratch directory of its process: installRoot, binDir and
\* all they hold are as before the step.
C15_AcquireOnlyInScratch ==
    /\ [](\A p \in Pids :
            proc[p].pc = "download_and_build" =>
                \A git \in CommandOutcomes, cargo \in CommandOutcomes,
                   produced \in {0} \cup Versions :
                    LET r == download_and_build(fs, temp_dir(p), git, cargo,
                                                produced) IN
                    /\ OutsideScratch(r.fs) = OutsideScratch(fs)
                    /\ \A d \in Pids \ {temp_dir(p)} :
                           r.fs.scratch[d] = fs.scratch[d])
    /\ [][\A p \in Pids :
            proc[p].pc = "download_and_build" =>
                OutsideScratch(fs') = OutsideScratch(fs)]_vars

\* A reinstall has built a new binary in its scratch directory and is
\* about to place it; the installed binary is still the old one.
C15_Witness ==
    \E p \in Pids :
        /\ proc[p].pc = "install_binary"
        /\ Entered(proc[p], "download_and_build")
        /\ fs.binary \in Versions
        /\ fs.scratch[temp_dir(p)].built \in Versions \ {fs.binary}
        /\ fs.uninstaller.exists

\* ------------------------------------------------------------------ C16
\* C16: installer processes running at the same time have distinct
\* scratch directories, and no step of one of them, its cleanup included,
\* creates, changes or removes the scratch directory of another or
\* anything in it, in whatever order their steps interleave.
C16_ScratchDirsDisjoint ==
    /\ [](\A p \in ConcPids, q \in ConcPids :
            p # q => temp_dir(p) # temp_dir(q))
    /\ [][\A p \in ConcPids :
            proc'[p] # proc[p] =>
                \A q \in ConcPids \ {p} :
                    fs'.scratch[temp_dir(q)] = fs.scratch[temp_dir(q)]]_vars

\* One process has built, failed or finished and removed its scratch
\* directory while another still holds its built binary in its own.
C16_Witness ==
    \E p \in ConcPids, q \in ConcPids :
        /\ p # q
        /\ Entered(proc[p], "download_and_build")
        /\ Entered(proc[p], "cleanup")
        /\ ~fs.scratch[temp_dir(p)].exists
        /\ proc[q].pc = "install_binary"
        /\ fs.scratch[temp_dir(q)].built \in Versions

\* ------------------------------------------------------------------ C17
\* The run has failed at the dependency check: git or cargo is missing.
DependencyMissing(r) ==
    /\ r.args = ""
    /\ r.result = "err"
    /\ LifecyclePart(r.steps) = <<"check_dependencies">>

Installed(f) ==
    [binary |-> f.binary, uninstaller |-> f.uninstaller, link |-> f.link]

\* C18: while a reinstall the user confirmed has not entered
\* install_binary, the installed binary is there, and no step of the run,
\* a failing one and the cleanup after it included, changes the binary,
\* the uninstaller or the binDir/kopi symlink.
C18_FailedReinstallKeepsInstallation ==
    /\ [](\A p \in Pids :
            (Entered(proc[p], "confirm")
                 /\ ~Entered(proc[p], "install_binary")) =>
                fs.binary \in Versions \cup {-1})
    /\ [][\A p \in Pids :
            (Running(p) /\ proc[p].args = ""
                        /\ (proc[p].pc = "confirm" \/ Entered(proc[p], "confirm"))
                        /\ ~Entered(proc'[p], "install_binary")) =>
                Installed(fs') = Installed(fs)]_vars

\* A confirmed reinstall failed at the build and has exited with code 1;
\* the previous binary, uninstaller and symlink are in place.
C18_Witness ==
    \E p \in Pids :
        /\ Exited(p)
        /\ proc[p].steps = <<"confirm", "check_dependencies",
                             "create_directories", "download_and_build",
                             "cleanup">>
        /\ proc[p].code = 1
        /\ fs.binary \in Versions
        /\ fs.uninstaller.exists
        /\ fs.link = "to_binary"

\* ------------------------------------------------------------------ C19
\* Running the generated uninstall.sh.  The shell resolves a relative path
\* against the directory the script is started from: the home directory or
\* some other place.
Cwds == {"home", "elsewhere"}

resolve(path, cwd) ==
    IF path # <<>> /\ Head(path) = "."
      THEN (IF cwd = "home" THEN HomePath ELSE <<"elsewhere">>) \o Tail(path)
      ELSE path

\* rm -f: removes the file or the symlink itself at the path; nothing, and
\* no error, when there is none.
rm_f(f, path, cwd) ==
    LET abs == resolve(path, cwd) IN
    IF abs = HomePath \o <<".kopi", "kopi">> THEN [f EXCEPT !.binary = 0]
    ELSE IF abs = HomePath \o <<".local", "bin", "kopi">>
      THEN [f EXCEPT !.link = "absent"]
      ELSE f

\* rm -rf: removes the directory and all it holds
rm_rf(f, path, cwd) ==
    IF resolve(path, cwd) = HomePath \o <<".kopi">>
      THEN [f EXCEPT !.installDir = FALSE, !.binary = 0,
                     !.uninstaller = NoFile, !.other = FALSE]
      ELSE f

\* The three commands of the unix script, one after the other.
run_script(f, script, cwd) ==
    rm_rf(rm_f(rm_f(f, script[1], cwd), script[2], cwd), script[3], cwd)

\* C19: on unix, in every state between runs where the uninstall script
\* exists, and for every environment in which Installer::new resolves its
\* paths, the script names the three paths the built-in uninstall removes
\* (installRoot/kopi, binDir/kopi, installRoot), and running it leaves the
\* filesystem the built-in uninstall leaves when all its calls succeed.
C19_ScriptSameAsUninstall ==
    (Idle /\ platform = "unix" /\ fs.uninstaller.exists) =>
        \A env \in Envs, p \in Pids :
            LET i == new(env, platform, p) IN
            i.ok =>
                /\ fs.uninstaller.script =
                       << i.install_dir \o <<"kopi">>,
                          i.bin_dir \o <<"kopi">>,
                          i.install_dir >>
                /\ \A cwd \in Cwds :
                       run_script(fs, fs.uninstaller.script, cwd)
                           = uninstall(fs, platform, "none").fs

====
